---- MODULE Spec2Model ----
(***************************************************************************)
(* Model of lib/util/get-npmignore.js: the resolver that decides, for a    *)
(* package, which relative paths npm would leave out of a publish.         *)
(*                                                                         *)
(* JavaScript strings are sequences of one-character strings, so that      *)
(* path.join, path.basename, the NEVER_IGNORED regular expression and the  *)
(* pattern lines are computed character by character.  Other JavaScript    *)
(* values are tagged sequences: <<"string">> \o chars, <<"null">>,         *)
(* <<"undefined">>, <<"number">>.                                          *)
(***************************************************************************)
EXTENDS Naturals, Sequences, FiniteSets, TLC

VARIABLES pkg, npmignore, gitignore, cache, call, changes

vars == <<pkg, npmignore, gitignore, cache, call, changes>>

(***************************************************************************)
(* String literals.                                                        *)
(***************************************************************************)
sPackageJson == <<"p","a","c","k","a","g","e",".","j","s","o","n">>
sIndexJs == <<"i","n","d","e","x",".","j","s">>
sDotIndexJs == <<".","/","i","n","d","e","x",".","j","s">>
sLibUpIndexJs == <<"l","i","b","/",".",".","/","i","n","d","e","x",".","j","s">>
sLibAJs == <<"l","i","b","/","a",".","j","s">>
sDotLibAJs == <<".","/","l","i","b","/","a",".","j","s">>
sTestAJs == <<"t","e","s","t","/","a",".","j","s">>
sSrcLibAJs == <<"s","r","c","/","l","i","b","/","a",".","j","s">>
sReadmeMd == <<"R","E","A","D","M","E",".","m","d">>
sReadme == <<"r","e","a","d","m","e">>
sLICENSE == <<"L","I","C","E","N","S","E">>
sDocsChangelogTxt == <<"d","o","c","s","/","C","h","a","n","g","e","l","o","g",".","t","x","t">>
sLicenseTxtBak == <<"L","I","C","E","N","S","E",".","t","x","t",".","b","a","k">>
sNull == <<"n","u","l","l">>
sLib == <<"l","i","b">>
sLibSlash == <<"l","i","b","/">>
sStar == <<"*">>
sTest == <<"t","e","s","t">>
sComment == <<"#"," ","c">>
sNotLibAJs == <<"!","l","i","b","/","a",".","j","s">>
sNpmignore == <<".","n","p","m","i","g","n","o","r","e">>
sGitignore == <<".","g","i","t","i","g","n","o","r","e">>
sLicense == <<"l","i","c","e","n","s","e">>
sLicence == <<"l","i","c","e","n","c","e">>
sChanges == <<"c","h","a","n","g","e","s">>
sChangelog == <<"c","h","a","n","g","e","l","o","g">>
sHistory == <<"h","i","s","t","o","r","y">>
sDirA == <<"/","a">>
sDirB == <<"/","b">>
sStartA1 == <<"/","a","/","x",".","j","s">>
sStartA2 == <<"/","a","/","l","i","b","/","y",".","j","s">>
sStartB == <<"/","b","/","z",".","j","s">>
sStartNone == <<"/","t","m","p","/","q",".","j","s">>

(***************************************************************************)
(* JavaScript values.                                                      *)
(***************************************************************************)
Str(s) == <<"string">> \o s
JsNull == <<"null">>
JsUndefined == <<"undefined">>
JsNumber == <<"number">>
IsString(v) == v[1] = "string"
Chars(v) == Tail(v)

\* `var name = value;` followed by Body, which reads the variable.
Let(value, Body(_)) == Body(value)

\* The `files` field: a tag and the entries of the array (empty unless an array).
FilesUndefined == [t |-> "undefined", v |-> <<>>]
FilesString == [t |-> "string", v |-> <<>>]
FilesArray(entries) == [t |-> "array", v |-> entries]

(***************************************************************************)
(* Character helpers.                                                      *)
(***************************************************************************)
Upper == <<"A","B","C","D","E","F","G","H","I","J","K","L","M","N","O","P","Q","R","S","T","U","V","W","X","Y","Z">>
Lower == <<"a","b","c","d","e","f","g","h","i","j","k","l","m","n","o","p","q","r","s","t","u","v","w","x","y","z">>

LowerOf == [c \in {Upper[i] : i \in 1..Len(Upper)} |-> Lower[CHOOSE i \in 1..Len(Upper) : Upper[i] = c]]

LowerChar(c) == IF c \in DOMAIN LowerOf THEN LowerOf[c] ELSE c

ToLower(s) == [i \in 1..Len(s) |-> LowerChar(s[i])]

\* The first index at or after i where s holds c, or 0.
RECURSIVE IndexFrom(_, _, _)
IndexFrom(s, c, i) ==
    IF i > Len(s) THEN 0 ELSE IF s[i] = c THEN i ELSE IndexFrom(s, c, i + 1)

\* The last index at or before i where s holds c, or 0.
RECURSIVE LastIndexFrom(_, _, _)
LastIndexFrom(s, c, i) ==
    IF i < 1 THEN 0 ELSE IF s[i] = c THEN i ELSE LastIndexFrom(s, c, i - 1)

RECURSIVE SplitOn(_, _)
SplitOn(s, c) ==
    Let(IndexFrom(s, c, 1), LAMBDA k :
        IF k = 0 THEN <<s>>
        ELSE <<SubSeq(s, 1, k - 1)>> \o SplitOn(SubSeq(s, k + 1, Len(s)), c))

RECURSIVE JoinWith(_, _)
JoinWith(parts, c) ==
    IF Len(parts) = 0 THEN <<>>
    ELSE IF Len(parts) = 1 THEN parts[1]
    ELSE parts[1] \o <<c>> \o JoinWith(Tail(parts), c)

RECURSIVE StripTailSlashes(_)
StripTailSlashes(s) ==
    IF Len(s) > 0 /\ s[Len(s)] = "/" THEN StripTailSlashes(SubSeq(s, 1, Len(s) - 1)) ELSE s

(***************************************************************************)
(* Node's path module (POSIX).                                             *)
(***************************************************************************)
RECURSIVE normalizeArray(_, _, _)
normalizeArray(parts, allowAboveRoot, res) ==
    IF Len(parts) = 0 THEN res
    ELSE LET p == parts[1]
             rest == Tail(parts)
         IN  IF p = <<>> \/ p = <<".">> THEN normalizeArray(rest, allowAboveRoot, res)
             ELSE IF p = <<".", ".">>
             THEN IF Len(res) > 0 /\ res[Len(res)] # <<".", ".">>
                  THEN normalizeArray(rest, allowAboveRoot, SubSeq(res, 1, Len(res) - 1))
                  ELSE IF allowAboveRoot
                       THEN normalizeArray(rest, allowAboveRoot, Append(res, p))
                       ELSE normalizeArray(rest, allowAboveRoot, res)
             ELSE normalizeArray(rest, allowAboveRoot, Append(res, p))

isAbsolute(s) == Len(s) > 0 /\ s[1] = "/"

trailingSlash(s) == Len(s) > 0 /\ s[Len(s)] = "/"

pathNormalize(s) ==
    Let(JoinWith(normalizeArray(SplitOn(s, "/"), ~isAbsolute(s), <<>>), "/"), LAMBDA body :
    Let(IF Len(body) = 0 /\ ~isAbsolute(s) THEN <<".">> ELSE body, LAMBDA body2 :
    Let(IF Len(body2) > 0 /\ trailingSlash(s) THEN body2 \o <<"/">> ELSE body2, LAMBDA body3 :
        IF isAbsolute(s) THEN <<"/">> \o body3 ELSE body3)))

posixJoin(a, b) == pathNormalize(JoinWith(SelectSeq(<<a, b>>, LAMBDA x : Len(x) > 0), "/"))

posixDirname(s) ==
    Let(StripTailSlashes(s), LAMBDA t :
    Let(LastIndexFrom(t, "/", Len(t)), LAMBDA k :
        IF k = 0 THEN <<".">>
        ELSE Let(StripTailSlashes(SubSeq(t, 1, k - 1)), LAMBDA d :
                 IF Len(d) = 0 THEN <<"/">> ELSE d)))

posixBasename(s) ==
    Let(StripTailSlashes(s), LAMBDA t :
    Let(LastIndexFrom(t, "/", Len(t)), LAMBDA k :
        IF k = 0 THEN t ELSE SubSeq(t, k + 1, Len(t))))

(***************************************************************************)
(* The strings of the model, and the path functions tabulated on them:     *)
(* path.join, path.dirname and path.basename are computed once for the     *)
(* arguments the model is known to use and computed afresh for any other.  *)
(* (`@@ <<>>` makes each table an explicit function, evaluated once.)      *)
(***************************************************************************)
PkgDirs == {sDirA, sDirB}

StartPaths == {sStartA1, sStartA2, sStartB, sStartNone}

\* The candidate paths given to match.
Paths ==
    { sPackageJson, sIndexJs, sDotIndexJs, sLibUpIndexJs, sLibAJs, sTestAJs, sSrcLibAJs,
      sReadmeMd, sReadme, sLICENSE, sDocsChangelogTxt, sLicenseTxtBak, sNull, sLib }

MainStrings == {sIndexJs, sDotLibAJs}

\* The string entries of `files`.
EntryStrings == {sLib, sLibSlash, sIndexJs, sStar}

\* The contents .npmignore and .gitignore take in the package that changes,
\* and the .gitignore of the package that does not.
NpmignoreContents == {<<sStar>>, <<sComment, sTest, <<>>, sNotLibAJs>>}

GitignoreContents == {<<sLib>>}

FixedGitignoreLines == <<sStar>>

joinTable ==
    [ab \in PkgDirs \X (Paths \cup MainStrings \cup {sPackageJson, sNpmignore, sGitignore})
        |-> posixJoin(ab[1], ab[2])] @@ <<>>

joinTableDomain == DOMAIN joinTable

pathJoin(a, b) == IF <<a, b>> \in joinTableDomain THEN joinTable[<<a, b>>] ELSE posixJoin(a, b)

dirnameTable ==
    [s \in StartPaths \cup {posixJoin(d, sPackageJson) : d \in PkgDirs}
           \cup {posixDirname(x) : x \in StartPaths}
        |-> posixDirname(s)] @@ <<>>

dirnameTableDomain == DOMAIN dirnameTable

pathDirname(s) == IF s \in dirnameTableDomain THEN dirnameTable[s] ELSE posixDirname(s)

basenameTable == [s \in Paths |-> posixBasename(s)] @@ <<>>

pathBasename(s) == IF s \in Paths THEN basenameTable[s] ELSE posixBasename(s)

(***************************************************************************)
(* NEVER_IGNORED, the regular expression of line 25, with its /i flag       *)
(* modelled by lower-casing the subject.  Its first alternative is         *)
(* `readme`, a dot and any number of non-dot characters; its second is one *)
(* of licence, license, changes, changelog, history, optionally followed   *)
(* by a dot and any number of non-dot characters.                          *)
(***************************************************************************)
OtherNames == {sLicense, sLicence, sChanges, sChangelog, sHistory}

testNeverIgnored(name) ==
    LET n == ToLower(name)
        parts == SplitOn(n, ".")
    IN  \/ Len(parts) = 2 /\ parts[1] = sReadme
        \/ Len(parts) = 1 /\ parts[1] \in OtherNames
        \/ Len(parts) = 2 /\ parts[1] \in OtherNames

\* NEVER_IGNORED.test tabulated on the basenames of the candidate paths.
neverIgnoredTable == [n \in {posixBasename(f) : f \in Paths} |-> testNeverIgnored(n)] @@ <<>>

neverIgnoredTableDomain == DOMAIN neverIgnoredTable

NEVER_IGNORED(name) ==
    IF name \in neverIgnoredTableDomain THEN neverIgnoredTable[name] ELSE testNeverIgnored(name)

(***************************************************************************)
(* Predicates are expression trees: op names the closure, kids its         *)
(* captured functions, strs its captured strings.                          *)
(***************************************************************************)
Node(op, kids, strs) == [op |-> op, kids |-> kids, strs |-> strs]

\* `null` returned in place of a predicate.
NoPredicate == Node("null", <<>>, <<>>)

\* Mutant: the default match function answers true.
alwaysFalse_answersTrue == Node("not", <<Node("alwaysFalse", <<>>, <<>>)>>, <<>>)

alwaysFalse == Node("alwaysFalse", <<>>, <<>>)

and(f, g) == Node("and", <<f, g>>, <<>>)

or(f, g) == Node("or", <<f, g>>, <<>>)

not(f) == Node("not", <<f>>, <<>>)

(***************************************************************************)
(* The pattern engine (`ignore`): gitignore lines compiled into a filter.  *)
(* A rule is a line that is neither blank nor a # comment; `!` negates;    *)
(* a trailing `/` restricts the rule to directories; a rule without an     *)
(* inner slash matches a name at any depth, one with a slash is anchored   *)
(* at the root; `*` stands for one name, `**` for any number of names; a   *)
(* rule that matches a directory matches everything below it; the last     *)
(* matching rule decides.                                                  *)
(***************************************************************************)
IsRule(line) == Len(line) > 0 /\ line[1] # "#"

RuleNegative(line) == line[1] = "!"

RuleBody(line) == IF RuleNegative(line) THEN Tail(line) ELSE line

RuleDirOnly(line) == LET b == RuleBody(line) IN Len(b) > 0 /\ b[Len(b)] = "/"

RuleAnchored(line) == IndexFrom(StripTailSlashes(RuleBody(line)), "/", 1) # 0

RuleSegs(line) ==
    LET b == StripTailSlashes(RuleBody(line))
    IN  IF Len(b) > 0 /\ b[1] = "/" THEN SplitOn(Tail(b), "/") ELSE SplitOn(b, "/")

PathSegs(filePath) == SelectSeq(SplitOn(filePath, "/"), LAMBDA x : Len(x) > 0)

SegMatch(g, name) == g = <<"*">> \/ g = <<"*", "*">> \/ g = name

RECURSIVE GlobSegs(_, _)
GlobSegs(gs, ps) ==
    IF Len(gs) = 0 THEN Len(ps) = 0
    ELSE IF gs[1] = <<"*", "*">>
    THEN IF Len(gs) = 1 THEN Len(ps) >= 1
         ELSE \E k \in 0..Len(ps) : GlobSegs(Tail(gs), SubSeq(ps, k + 1, Len(ps)))
    ELSE Len(ps) >= 1 /\ SegMatch(gs[1], ps[1]) /\ GlobSegs(Tail(gs), Tail(ps))

matchRule(line, filePath) ==
    LET ps == PathSegs(filePath)
        gs == RuleSegs(line)
    IN  \E i \in 1..Len(ps) :
            /\ RuleDirOnly(line) => i < Len(ps)
            /\ IF RuleAnchored(line)
               THEN GlobSegs(gs, SubSeq(ps, 1, i))
               ELSE Len(gs) = 1 /\ SegMatch(gs[1], ps[i])

\* matchRule tabulated on the rules and the candidate paths of the model.
RuleLines ==
    UNION { {l \in {c[i] : i \in 1..Len(c)} : IsRule(l)} : c \in NpmignoreContents \cup GitignoreContents \cup {FixedGitignoreLines} }
    \cup {<<"*">>}
    \cup {<<"!">> \o e : e \in EntryStrings}
    \cup {<<"!">> \o StripTailSlashes(e) \o <<"/", "*", "*">> : e \in EntryStrings}

ruleTable == [lp \in RuleLines \X Paths |-> matchRule(lp[1], lp[2])] @@ <<>>

ruleTableDomain == DOMAIN ruleTable

RuleMatches(line, filePath) ==
    IF <<line, filePath>> \in ruleTableDomain THEN ruleTable[<<line, filePath>>]
    ELSE matchRule(line, filePath)

RECURSIVE Ignored(_, _, _)
Ignored(lines, filePath, sofar) ==
    IF Len(lines) = 0 THEN sofar
    ELSE LET l == lines[1]
         IN  IF IsRule(l) /\ RuleMatches(l, filePath)
             THEN Ignored(Tail(lines), filePath, ~RuleNegative(l))
             ELSE Ignored(Tail(lines), filePath, sofar)

\* ignore.createFilter(): true for the paths the rules do NOT ignore.
\* strs[1] is the ignore file the rules were read from (empty for addPattern).
createFilter(source, lines) == Node("createFilter", <<>>, <<source>> \o lines)

FilterAccepts(strs, filePath) == ~Ignored(Tail(strs), filePath, FALSE)

(***************************************************************************)
(* filterNeverIgnoredFiles(p): captures basedir and mainFilePath.          *)
(***************************************************************************)
\* Mutant: `main` is joined whatever its type, null as "null".
mainFilePathOf_stringifies(p) ==
    IF IsString(p.main) THEN Str(posixJoin(posixDirname(p.filePath), Chars(p.main)))
    ELSE IF p.main = JsNull THEN Str(posixJoin(posixDirname(p.filePath), sNull))
    ELSE Str(posixJoin(posixDirname(p.filePath), <<"u","n","d","e","f","i","n","e","d">>))

mainFilePathOf(p) ==
    IF IsString(p.main) THEN Str(pathJoin(pathDirname(p.filePath), Chars(p.main))) ELSE JsNull

filterNeverIgnoredFiles(p) ==
    Node("filterNeverIgnoredFiles", <<>>, <<pathDirname(p.filePath), mainFilePathOf(p)>>)

\* Mutant: the candidate is glued to basedir instead of joined by path.join.
NeverIgnoredAccepts_unjoined(strs, filePath) ==
    /\ Str(strs[1] \o <<"/">> \o filePath) # strs[2]
    /\ filePath # sPackageJson
    /\ ~NEVER_IGNORED(posixBasename(filePath))

NeverIgnoredAccepts(strs, filePath) ==
    /\ Str(pathJoin(strs[1], filePath)) # strs[2]
    /\ filePath # sPackageJson
    /\ ~NEVER_IGNORED(pathBasename(filePath))

(***************************************************************************)
(* Applying a predicate to a path.                                         *)
(***************************************************************************)
RECURSIVE Apply(_, _)
Apply(f, filePath) ==
    CASE f.op = "alwaysFalse" -> FALSE
      [] f.op = "and" -> Apply(f.kids[1], filePath) /\ Apply(f.kids[2], filePath)
      [] f.op = "or" -> Apply(f.kids[1], filePath) \/ Apply(f.kids[2], filePath)
      [] f.op = "not" -> ~Apply(f.kids[1], filePath)
      [] f.op = "createFilter" -> FilterAccepts(f.strs, filePath)
      [] f.op = "filterNeverIgnoredFiles" -> NeverIgnoredAccepts(f.strs, filePath)

(***************************************************************************)
(* The world outside the resolver: package directories with their          *)
(* package.json fields and their ignore files.                             *)
(***************************************************************************)
\* The package whose manifest and ignore files change while the program runs.
MutableDirs == {sDirA}

KeyOf(d) == joinTable[<<d, sPackageJson>>]

Keys == {KeyOf(d) : d \in PkgDirs}

NoFile == [exists |-> FALSE, lines |-> <<>>]

File(lines) == [exists |-> TRUE, lines |-> lines]

FilesValues ==
    { FilesUndefined, FilesString, FilesArray(<<>>), FilesArray(<<JsNumber>>),
      FilesArray(<<Str(sLib)>>), FilesArray(<<Str(sLibSlash), JsNumber, Str(sIndexJs)>>),
      FilesArray(<<Str(sStar)>>) }

MainValues == {JsUndefined, JsNull, Str(sIndexJs), Str(sDotLibAJs)}

\* How many times the manifest or an ignore file is rewritten in one run.
MaxChanges == 1

\* The path of the .npmignore, and of the .gitignore, of each package directory.
npmignorePathOf == [d \in PkgDirs |-> joinTable[<<d, sNpmignore>>]]

gitignorePathOf == [d \in PkgDirs |-> joinTable[<<d, sGitignore>>]]

\* The file at filePath, if it is an ignore file of a package.
fileAt(filePath) ==
    IF \E d \in PkgDirs : npmignorePathOf[d] = filePath
    THEN npmignore[CHOOSE d \in PkgDirs : npmignorePathOf[d] = filePath]
    ELSE IF \E d \in PkgDirs : gitignorePathOf[d] = filePath
    THEN gitignore[CHOOSE d \in PkgDirs : gitignorePathOf[d] = filePath]
    ELSE NoFile

\* exists(filePath) of ./exists
exists(filePath) == fileAt(filePath).exists

\* The lines ignore.addIgnoreFile(filePath) reads.
readLines(filePath) == fileAt(filePath).lines

NoManifest == [found |-> FALSE, filePath |-> <<>>, files |-> FilesUndefined, main |-> JsUndefined]

\* getPackageJson(startPath) of ./get-package-json: the nearest package.json upwards.
RECURSIVE lookupManifest(_)
lookupManifest(dir) ==
    IF dir \in PkgDirs
    THEN [found |-> TRUE, filePath |-> joinTable[<<dir, sPackageJson>>],
          files |-> pkg[dir].files, main |-> pkg[dir].main]
    ELSE IF dir = <<"/">> \/ dir = <<".">> THEN NoManifest
    ELSE lookupManifest(pathDirname(dir))

getPackageJson(startPath) == lookupManifest(pathDirname(startPath))

\* Cache of ./cache: get gives the value put under the key, or null.
cacheGet(c, key) == c[key]

cachePut(c, key, value) == [c EXCEPT ![key] = value]

(***************************************************************************)
(* parseWhiteList(files)                                                   *)
(***************************************************************************)
\* Mutant: only the directory pattern of an entry is added.
RECURSIVE whiteListPatterns_directoryOnly(_)
whiteListPatterns_directoryOnly(entries) ==
    IF Len(entries) = 0 THEN <<>>
    ELSE LET file == entries[1]
         IN  IF IsString(file)
             THEN << <<"!">> \o StripTailSlashes(Chars(file)) \o <<"/", "*", "*">> >>
                  \o whiteListPatterns_directoryOnly(Tail(entries))
             ELSE whiteListPatterns_directoryOnly(Tail(entries))

RECURSIVE whiteListPatterns(_)
whiteListPatterns(entries) ==
    IF Len(entries) = 0 THEN <<>>
    ELSE LET file == entries[1]
         IN  IF IsString(file)
             THEN << <<"!">> \o Chars(file),
                     <<"!">> \o StripTailSlashes(Chars(file)) \o <<"/", "*", "*">> >>
                  \o whiteListPatterns(Tail(entries))
             ELSE whiteListPatterns(Tail(entries))

\* Mutant: an array without a string entry gives null.
parseWhiteList_nullWithoutStrings(files) ==
    IF files.t # "array" \/ \A i \in 1..Len(files.v) : ~IsString(files.v[i]) THEN NoPredicate
    ELSE not(createFilter(<<>>, <<sStar>> \o whiteListPatterns(files.v)))

parseWhiteList(files) ==
    IF files.t # "array" THEN NoPredicate
    ELSE not(createFilter(<<>>, <<sStar>> \o whiteListPatterns(files.v)))

(***************************************************************************)
(* parseNpmignore(basedir, filesFieldExists)                               *)
(***************************************************************************)
\* Mutant: the .gitignore fallback is taken whether or not `files` exists.
parseNpmignore_fallsBackAlways(basedir, filesFieldExists) ==
    Let(pathJoin(basedir, sNpmignore), LAMBDA npmPath :
    Let(pathJoin(basedir, sGitignore), LAMBDA gitPath :
        IF exists(npmPath) THEN not(createFilter(npmPath, readLines(npmPath)))
        ELSE IF ~exists(gitPath) THEN NoPredicate
        ELSE not(createFilter(gitPath, readLines(gitPath)))))

parseNpmignore(basedir, filesFieldExists) ==
    Let(pathJoin(basedir, sNpmignore), LAMBDA npmPath :
    Let(pathJoin(basedir, sGitignore), LAMBDA gitPath :
        IF exists(npmPath) THEN not(createFilter(npmPath, readLines(npmPath)))
        ELSE IF filesFieldExists THEN NoPredicate
        ELSE IF ~exists(gitPath) THEN NoPredicate
        ELSE not(createFilter(gitPath, readLines(gitPath)))))

(***************************************************************************)
(* getNpmignore(startPath): the Matcher returned (its match function), the *)
(* cache afterwards, and what the call did.                                *)
(***************************************************************************)
\* Mutant: the two predicates are conjoined where both exist.
buildMatch_conjoins(p) ==
    Let(parseWhiteList(p.files), LAMBDA filesIgnore :
    Let(parseNpmignore(pathDirname(p.filePath), filesIgnore # NoPredicate),
        LAMBDA npmignoreIgnore :
    Let(filterNeverIgnoredFiles(p), LAMBDA neverIgnored :
        IF filesIgnore # NoPredicate /\ npmignoreIgnore # NoPredicate
        THEN and(neverIgnored, and(filesIgnore, npmignoreIgnore))
        ELSE IF filesIgnore # NoPredicate
        THEN and(neverIgnored, filesIgnore)
        ELSE IF npmignoreIgnore # NoPredicate
        THEN and(neverIgnored, npmignoreIgnore)
        ELSE alwaysFalse)))

buildMatch(p) ==
    Let(parseWhiteList(p.files), LAMBDA filesIgnore :
    Let(parseNpmignore(pathDirname(p.filePath), filesIgnore # NoPredicate),
        LAMBDA npmignoreIgnore :
    Let(filterNeverIgnoredFiles(p), LAMBDA neverIgnored :
        IF filesIgnore # NoPredicate /\ npmignoreIgnore # NoPredicate
        THEN and(neverIgnored, or(filesIgnore, npmignoreIgnore))
        ELSE IF filesIgnore # NoPredicate
        THEN and(neverIgnored, filesIgnore)
        ELSE IF npmignoreIgnore # NoPredicate
        THEN and(neverIgnored, npmignoreIgnore)
        ELSE alwaysFalse)))

\* What a call gives: the Matcher, the cache afterwards, whether the cache
\* answered, and the manifest the locator found.
Outcome(retv, c, hit, p) == [retv |-> retv, cache |-> c, hit |-> hit, p |-> p]

\* Mutant: the Matcher built is returned without cache.put.
getNpmignore_forgetsPut(startPath) ==
    Let(getPackageJson(startPath), LAMBDA p :
        IF ~p.found THEN Outcome(alwaysFalse, cache, FALSE, p)
        ELSE Let(cacheGet(cache, p.filePath), LAMBDA data :
                 IF data # NoPredicate THEN Outcome(data, cache, TRUE, p)
                 ELSE Outcome(buildMatch(p), cache, FALSE, p)))

\* Mutant: the cache is not consulted; every call builds and puts a Matcher.
getNpmignore_alwaysRebuilds(startPath) ==
    Let(getPackageJson(startPath), LAMBDA p :
        IF ~p.found THEN Outcome(alwaysFalse, cache, FALSE, p)
        ELSE Let(buildMatch(p), LAMBDA retv :
                 Outcome(retv, cachePut(cache, p.filePath, retv), FALSE, p)))

getNpmignore(startPath) ==
    Let(getPackageJson(startPath), LAMBDA p :
        IF ~p.found THEN Outcome(alwaysFalse, cache, FALSE, p)
        ELSE Let(cacheGet(cache, p.filePath), LAMBDA data :
                 IF data # NoPredicate THEN Outcome(data, cache, TRUE, p)
                 ELSE Let(buildMatch(p), LAMBDA retv :
                          Outcome(retv, cachePut(cache, p.filePath, retv), FALSE, p))))

(***************************************************************************)
(* State machine.  call records the latest resolve call: its argument,     *)
(* the manifest the locator gave it, the ignore files of that package as   *)
(* they were during the call, and the Matcher it returned.                 *)
(***************************************************************************)
NoCall ==
    [done |-> FALSE, startPath |-> <<>>, p |-> NoManifest, npm |-> NoFile, git |-> NoFile,
     hit |-> FALSE, retv |-> NoPredicate]

FixedPkg == [files |-> FilesUndefined, main |-> Str(sIndexJs)]

Init ==
    /\ \E f \in FilesValues, m \in MainValues :
           pkg = [d \in PkgDirs |-> IF d \in MutableDirs THEN [files |-> f, main |-> m] ELSE FixedPkg]
    /\ \E n \in {NoFile} \cup {File(l) : l \in NpmignoreContents} :
           npmignore = [d \in PkgDirs |-> IF d \in MutableDirs THEN n ELSE NoFile]
    /\ \E g \in {NoFile} \cup {File(l) : l \in GitignoreContents} :
           gitignore = [d \in PkgDirs |-> IF d \in MutableDirs THEN g ELSE File(FixedGitignoreLines)]
    /\ cache = [k \in Keys |-> NoPredicate]
    /\ call = NoCall
    /\ changes = 0

Resolve(startPath) ==
    \E r \in {getNpmignore(startPath)} :
    \E d \in {pathDirname(r.p.filePath)} :
        /\ cache' = r.cache
        /\ call' = [done |-> TRUE, startPath |-> startPath, p |-> r.p,
                    npm |-> IF r.p.found THEN npmignore[d] ELSE NoFile,
                    git |-> IF r.p.found THEN gitignore[d] ELSE NoFile,
                    hit |-> r.hit, retv |-> r.retv]
        /\ UNCHANGED <<pkg, npmignore, gitignore, changes>>

\* The cache drops an entry (it may evict at its discretion).
Evict(key) ==
    /\ cache[key] # NoPredicate
    /\ cache' = [cache EXCEPT ![key] = NoPredicate]
    /\ UNCHANGED <<pkg, npmignore, gitignore, call, changes>>

SetFiles(d, f) ==
    /\ changes < MaxChanges
    /\ pkg[d].files # f
    /\ pkg' = [pkg EXCEPT ![d].files = f]
    /\ changes' = changes + 1
    /\ UNCHANGED <<npmignore, gitignore, cache, call>>

SetMain(d, m) ==
    /\ changes < MaxChanges
    /\ pkg[d].main # m
    /\ pkg' = [pkg EXCEPT ![d].main = m]
    /\ changes' = changes + 1
    /\ UNCHANGED <<npmignore, gitignore, cache, call>>

WriteNpmignore(d, n) ==
    /\ changes < MaxChanges
    /\ npmignore[d] # n
    /\ npmignore' = [npmignore EXCEPT ![d] = n]
    /\ changes' = changes + 1
    /\ UNCHANGED <<pkg, gitignore, cache, call>>

WriteGitignore(d, g) ==
    /\ changes < MaxChanges
    /\ gitignore[d] # g
    /\ gitignore' = [gitignore EXCEPT ![d] = g]
    /\ changes' = changes + 1
    /\ UNCHANGED <<pkg, npmignore, cache, call>>

Next ==
    \/ \E s \in StartPaths : Resolve(s)
    \/ \E k \in Keys : Evict(k)
    \/ \E d \in MutableDirs, f \in FilesValues : SetFiles(d, f)
    \/ \E d \in MutableDirs, m \in MainValues : SetMain(d, m)
    \/ \E d \in MutableDirs, n \in {NoFile} \cup {File(l) : l \in NpmignoreContents} : WriteNpmignore(d, n)
    \/ \E d \in MutableDirs, g \in {NoFile} \cup {File(l) : l \in GitignoreContents} : WriteGitignore(d, g)

Spec == Init /\ [][Next]_vars

(***************************************************************************)
(* Vocabulary of the properties.                                           *)
(***************************************************************************)
\* The latest call located a manifest and built its Matcher (cache miss).
CallBuilt == call.done /\ call.p.found /\ ~call.hit

CallDir == pathDirname(call.p.filePath)

\* The predicate the Whitelist Parser gave the latest call.
CallWhitelist == parseWhiteList(call.p.files)

\* The ignore files of the package as they were during the latest call.
CallNpmPath == pathJoin(CallDir, sNpmignore)

CallGitPath == pathJoin(CallDir, sGitignore)

\* The ignore files a predicate was compiled from.
RECURSIVE IgnoreFilesOf(_)
IgnoreFilesOf(f) ==
    IF f.op = "createFilter"
    THEN IF f.strs[1] = <<>> THEN {} ELSE {f.strs[1]}
    ELSE UNION {IgnoreFilesOf(f.kids[i]) : i \in 1..Len(f.kids)}

\* The lines a predicate read from ignore file `path`.
RECURSIVE IgnoreLinesOf(_, _)
IgnoreLinesOf(f, path) ==
    IF f.op = "createFilter"
    THEN IF f.strs[1] = path THEN {Tail(f.strs)} ELSE {}
    ELSE UNION {IgnoreLinesOf(f.kids[i], path) : i \in 1..Len(f.kids)}

\* Protection by the package.json clause and the protected-name clause alone.
ManifestOrNameProtected(filePath) ==
    filePath = sPackageJson \/ NEVER_IGNORED(posixBasename(filePath))

\* Which ignore file the Ignore-File Parser is to consult, as a table.
ExpectedIgnoreFile ==
    IF call.npm.exists THEN "npmignore"
    ELSE IF call.git.exists /\ CallWhitelist = NoPredicate THEN "gitignore"
    ELSE "none"

\* "Ignored by the ignore file consulted", by the rules of the pattern engine.
IgnoreFileSays(filePath) ==
    CASE ExpectedIgnoreFile = "npmignore" -> Ignored(call.npm.lines, filePath, FALSE)
      [] ExpectedIgnoreFile = "gitignore" -> Ignored(call.git.lines, filePath, FALSE)
      [] ExpectedIgnoreFile = "none" -> FALSE

\* "Ignored by the whitelist", when there is one.
WhitelistSays(filePath) == CallWhitelist # NoPredicate /\ Apply(CallWhitelist, filePath)

(***************************************************************************)
(* C3: when the manifest locator finds no manifest for the start path, the *)
(* Matcher returned ignores no path, whatever the ignore files and the     *)
(* cache hold.                                                             *)
(***************************************************************************)
C3_NoManifestIgnoresNothing ==
    (call.done /\ ~call.p.found) => \A f \in Paths : ~Apply(call.retv, f)

C3_Witness ==
    /\ call.done /\ ~call.p.found
    /\ \A k \in Keys : cache[k] # NoPredicate
    /\ npmignore[sDirA].exists /\ gitignore[sDirA].exists

(***************************************************************************)
(* C4: on a cache miss with a located manifest the final predicate is      *)
(* AND(never-ignored, OR(whitelist, ignore file)) when both predicates     *)
(* exist, AND(never-ignored, whitelist) or AND(never-ignored, ignore file) *)
(* when one exists, and constant false when neither exists.                *)
(***************************************************************************)
C4_Combination ==
    CallBuilt =>
        \A f \in Paths :
            LET never == Apply(filterNeverIgnoredFiles(call.p), f)
                haveW == CallWhitelist # NoPredicate
                haveI == ExpectedIgnoreFile # "none"
            IN  Apply(call.retv, f) =
                    ( IF haveW /\ haveI THEN never /\ (WhitelistSays(f) \/ IgnoreFileSays(f))
                      ELSE IF haveW THEN never /\ WhitelistSays(f)
                      ELSE IF haveI THEN never /\ IgnoreFileSays(f)
                      ELSE FALSE )

\* Both predicates exist and disagree on an unprotected path.
C4_Witness ==
    /\ CallBuilt
    /\ CallWhitelist # NoPredicate /\ ExpectedIgnoreFile # "none"
    /\ \E f \in Paths :
           /\ Apply(filterNeverIgnoredFiles(call.p), f)
           /\ WhitelistSays(f) /\ ~IgnoreFileSays(f)
           /\ Apply(call.retv, f)

(***************************************************************************)
(* C5: .npmignore is consulted whenever it exists; .gitignore only when    *)
(* .npmignore does not exist and `files` gave no whitelist; otherwise no   *)
(* ignore file is consulted.                                               *)
(***************************************************************************)
C5_IgnoreFileChoice ==
    CallBuilt =>
        CASE ExpectedIgnoreFile = "npmignore" ->
                 /\ IgnoreFilesOf(call.retv) = {CallNpmPath}
                 /\ IgnoreLinesOf(call.retv, CallNpmPath) = {call.npm.lines}
          [] ExpectedIgnoreFile = "gitignore" ->
                 /\ IgnoreFilesOf(call.retv) = {CallGitPath}
                 /\ IgnoreLinesOf(call.retv, CallGitPath) = {call.git.lines}
          [] ExpectedIgnoreFile = "none" -> IgnoreFilesOf(call.retv) = {}

\* A .gitignore exists and is left alone because `files` gave a whitelist.
C5_Witness ==
    /\ CallBuilt
    /\ ~call.npm.exists /\ call.git.exists
    /\ CallWhitelist # NoPredicate
    /\ IgnoreFilesOf(call.retv) = {}

(***************************************************************************)
(* C1: match(p) is false for every path whose basename, compared without   *)
(* regard to case and ignoring one optional extension, is one of readme,   *)
(* license, licence, changes, changelog, history - in particular for       *)
(* README.md, readme and LICENSE - whatever the ignore files and `files`   *)
(* say.                                                                    *)
(***************************************************************************)
ProtectedNames == {sReadme, sLicense, sLicence, sChanges, sChangelog, sHistory}

\* The basename, lower-cased, is a protected name with at most one extension.
HasProtectedName(filePath) ==
    LET parts == SplitOn(ToLower(posixBasename(filePath)), ".")
    IN  Len(parts) \in {1, 2} /\ parts[1] \in ProtectedNames

C1_ProtectedNamesNeverIgnored ==
    (call.done /\ call.p.found) =>
        \A f \in Paths : HasProtectedName(f) => ~Apply(call.retv, f)

(***************************************************************************)
(* C2: the Matcher built for a located manifest never reports package.json *)
(* ignorable, and when `main` is a string it never reports ignorable a     *)
(* path that joins with the package directory to the same path as `main`,  *)
(* whatever `files` and the ignore files say.                              *)
(***************************************************************************)
C2_ManifestAndMainKept ==
    /\ call.done => ~Apply(call.retv, sPackageJson)
    /\ (CallBuilt /\ IsString(call.p.main)) =>
           \A f \in Paths :
               posixJoin(CallDir, f) = posixJoin(CallDir, Chars(call.p.main))
                   => ~Apply(call.retv, f)

\* `main` is ./lib/a.js, the candidate lib/a.js is spelled differently, and
\* the .npmignore in force excludes everything.
C2_Witness ==
    /\ CallBuilt
    /\ call.p.main = Str(sDotLibAJs)
    /\ call.npm.exists /\ call.npm.lines = <<sStar>>
    /\ ~Apply(call.retv, sLibAJs)
    /\ Apply(call.retv, sTestAJs)

(***************************************************************************)
(* C9: when `main` is absent or not a string the main-entry clause         *)
(* protects no path, not even one named "null": match(p) is what the       *)
(* package.json clause, the protected-name clause and the whitelist and    *)
(* ignore-file predicates say.                                             *)
(***************************************************************************)
C9_NoMainProtectsNothing ==
    (CallBuilt /\ ~IsString(call.p.main)) =>
        \A f \in Paths :
            Apply(call.retv, f) =
                (~ManifestOrNameProtected(f) /\ (WhitelistSays(f) \/ IgnoreFileSays(f)))

\* `main` is null and the path named "null" is reported ignorable.
C9_Witness ==
    /\ CallBuilt
    /\ call.p.main = JsNull
    /\ Apply(call.retv, sNull)

(***************************************************************************)
(* C7 as stated: the Whitelist Parser yields no predicate when `files` is  *)
(* absent, is not an array, or is an array without a string entry, and     *)
(* resolve then behaves as if there were no `files` field: the .gitignore  *)
(* fallback stays available and, with no ignore file, nothing is ignored.  *)
(***************************************************************************)
NoStringEntry(files) == files.t # "array" \/ \A i \in 1..Len(files.v) : ~IsString(files.v[i])

\* What match says for a manifest without a `files` field.
WithoutFilesSays(filePath) ==
    /\ Apply(filterNeverIgnoredFiles(call.p), filePath)
    /\ IF call.npm.exists THEN Ignored(call.npm.lines, filePath, FALSE)
       ELSE IF call.git.exists THEN Ignored(call.git.lines, filePath, FALSE)
       ELSE FALSE

C7_NoStringEntryMeansNoWhitelist ==
    (CallBuilt /\ NoStringEntry(call.p.files)) =>
        /\ CallWhitelist = NoPredicate
        /\ \A f \in Paths : Apply(call.retv, f) = WithoutFilesSays(f)

(***************************************************************************)
(* C7 amended: the Whitelist Parser yields no predicate when `files` is    *)
(* absent or not an array, and resolve then behaves as if there were no    *)
(* `files` field.  An array without a string entry (empty, or holding only *)
(* non-strings) still yields a predicate, the one of the lone pattern `*`: *)
(* .gitignore is not consulted and every path the Never-Ignored Filter     *)
(* does not protect is reported ignorable.                                 *)
(***************************************************************************)
C7_WhitelistAbsence ==
    CallBuilt =>
        /\ call.p.files.t # "array" =>
               /\ CallWhitelist = NoPredicate
               /\ \A f \in Paths : Apply(call.retv, f) = WithoutFilesSays(f)
        /\ (call.p.files.t = "array" /\ NoStringEntry(call.p.files)) =>
               /\ CallWhitelist # NoPredicate
               /\ IgnoreFilesOf(call.retv) \subseteq {CallNpmPath}
               /\ \A f \in Paths :
                      Apply(call.retv, f) = Apply(filterNeverIgnoredFiles(call.p), f)

\* `files` holds only a number, a .gitignore exists and says nothing of test/,
\* and test/a.js is reported ignorable all the same.
C7_Witness ==
    /\ CallBuilt
    /\ call.p.files = FilesArray(<<JsNumber>>)
    /\ ~call.npm.exists /\ call.git.exists
    /\ ~Ignored(call.git.lines, sTestAJs, FALSE)
    /\ Apply(call.retv, sTestAJs)

(***************************************************************************)
(* C8 as stated: with a string entry in `files` and no .npmignore,         *)
(* match(p) is true exactly for the unprotected paths that are neither     *)
(* equal to a string entry nor under a string entry taken as a directory.  *)
(***************************************************************************)
HasStringEntry(files) == files.t = "array" /\ \E i \in 1..Len(files.v) : IsString(files.v[i])

IsUnder(filePath, dir) ==
    /\ Len(dir) > 0
    /\ Len(filePath) > Len(dir) + 1
    /\ SubSeq(filePath, 1, Len(dir) + 1) = dir \o <<"/">>

EqualOrUnderAnEntry(filePath) ==
    \E i \in 1..Len(call.p.files.v) :
        LET e == call.p.files.v[i]
        IN  /\ IsString(e)
            /\ \/ filePath = Chars(e)
               \/ IsUnder(filePath, StripTailSlashes(Chars(e)))

C8_IgnoredIffOutsideEntries ==
    (CallBuilt /\ HasStringEntry(call.p.files) /\ ~call.npm.exists) =>
        \A f \in Paths :
            Apply(call.retv, f) =
                (Apply(filterNeverIgnoredFiles(call.p), f) /\ ~EqualOrUnderAnEntry(f))

(***************************************************************************)
(* C8 amended: with a string entry in `files` and no .npmignore, match(p)  *)
(* is false for every path equal to a string entry or under one taken as   *)
(* a directory, and true exactly for the unprotected paths that no string  *)
(* entry re-includes as a pattern, i.e. that neither `!entry` nor          *)
(* `!entry/**` (trailing slashes of the entry stripped) matches; an entry  *)
(* is a gitignore pattern, so an entry without a slash also keeps paths    *)
(* of that name at any depth and `*` keeps everything.  Non-string entries *)
(* change nothing.  files = ["lib"] keeps lib/a.js and ignores test/a.js.  *)
(***************************************************************************)
ReincludedByAnEntry(filePath) ==
    \E i \in 1..Len(call.p.files.v) :
        LET e == call.p.files.v[i]
        IN  /\ IsString(e)
            /\ \/ RuleMatches(<<"!">> \o Chars(e), filePath)
               \/ RuleMatches(<<"!">> \o StripTailSlashes(Chars(e)) \o <<"/", "*", "*">>, filePath)

C8_WhitelistKeepsEntries ==
    (CallBuilt /\ HasStringEntry(call.p.files) /\ ~call.npm.exists) =>
        /\ \A f \in Paths : EqualOrUnderAnEntry(f) => ~Apply(call.retv, f)
        /\ \A f \in Paths :
               Apply(call.retv, f) =
                   (Apply(filterNeverIgnoredFiles(call.p), f) /\ ~ReincludedByAnEntry(f))
        /\ call.p.files = FilesArray(<<Str(sLib)>>) =>
               /\ ~Apply(call.retv, sLibAJs)
               /\ Apply(call.retv, sTestAJs)

\* files = ["lib"]: lib/a.js is kept, test/a.js is ignorable, and src/lib/a.js,
\* which is not under the entry, is kept as well.
C8_Witness ==
    /\ CallBuilt
    /\ call.p.files = FilesArray(<<Str(sLib)>>)
    /\ ~call.npm.exists
    /\ ~Apply(call.retv, sLibAJs)
    /\ Apply(call.retv, sTestAJs)
    /\ ~Apply(call.retv, sSrcLibAJs)

(***************************************************************************)
(* C6 as stated: two resolve calls whose start paths locate the same       *)
(* manifest path return Matchers that agree on every path, because every   *)
(* later call returns the Matcher the first call stored.                   *)
(***************************************************************************)
C6_SameManifestSameMatcher ==
    [][ \A s \in StartPaths :
            ( /\ Resolve(s)
              /\ call.done /\ call.p.found
              /\ getPackageJson(s).found
              /\ getPackageJson(s).filePath = call.p.filePath )
            => \A f \in Paths : Apply(call'.retv, f) = Apply(call.retv, f) ]_vars

(***************************************************************************)
(* C6 amended: a resolve call that locates a manifest leaves its Matcher   *)
(* in the cache under the manifest's file path (also the constant-false    *)
(* one), and a call that finds an entry for that path still in the cache   *)
(* returns that entry, without reading `files` or the ignore files again,  *)
(* even if they changed in between.  Two calls for the same manifest path  *)
(* agree as long as the cache has not dropped the entry between them.      *)
(***************************************************************************)
C6_CacheHitReturnsStored ==
    [][ \A s \in StartPaths :
            Resolve(s) =>
                LET p == getPackageJson(s)
                IN  p.found =>
                        /\ cache'[p.filePath] = call'.retv
                        /\ cache[p.filePath] # NoPredicate => call'.retv = cache[p.filePath] ]_vars

\* A call was answered from the cache with a Matcher that a fresh
\* computation would no longer give, and an earlier entry was constant false.
C6_Witness ==
    /\ call.done /\ call.hit
    /\ call.retv = cache[call.p.filePath]
    /\ call.retv # buildMatch(call.p)
    /\ \E f \in Paths : Apply(call.retv, f) # Apply(buildMatch(call.p), f)

(***************************************************************************)
(* C10: a resolve call puts exactly one entry, under the manifest's file   *)
(* path, when a manifest is located and the cache has no entry for it;     *)
(* otherwise it leaves the cache unchanged.  Entries under other keys are  *)
(* never altered and a stored entry is never overwritten.                  *)
(***************************************************************************)
C10_CacheFrame ==
    [][ \A s \in StartPaths :
            Resolve(s) =>
                LET p == getPackageJson(s)
                IN  IF p.found /\ cache[p.filePath] = NoPredicate
                    THEN /\ cache'[p.filePath] # NoPredicate
                         /\ \A k \in Keys \ {p.filePath} : cache'[k] = cache[k]
                    ELSE cache' = cache ]_vars

\* An entry was just put beside the entry of another manifest.
C10_Witness ==
    /\ CallBuilt
    /\ cache[call.p.filePath] = call.retv
    /\ \E k \in Keys \ {call.p.filePath} : cache[k] # NoPredicate

====
